---- MODULE Spec2Model ----
(***************************************************************************)
(* A model of src/agent_graph.py: the MistralAgent request pipeline        *)
(* (router -> math | summarizer -> final), MistralAgent.run and main().    *)
(*                                                                         *)
(* Text is modelled character by character: a Python str is a sequence of  *)
(* code points (ASCII here), so that str.lower(), the `in` substring test, *)
(* str.strip() and the regular expression of summarizer_node are computed  *)
(* on characters as the interpreter computes them.  The fields "next" and  *)
(* "processing_type" only ever hold literals of the program and are kept   *)
(* as TLA+ strings.                                                        *)
(***************************************************************************)
EXTENDS Integers, Sequences, FiniteSets, TLC

(***************************************************************************)
(* Bounds of the model.                                                    *)
(***************************************************************************)
\* longest run of whitespace placed before, inside or after a generated text
MaxPad == 2

(***************************************************************************)
(* Characters and string primitives.                                       *)
(***************************************************************************)
\* the empty str ""
EmptyStr == << >>

\* str.lower() on one ASCII character: 'A'..'Z' map to 'a'..'z'
LowerChar(c) == IF c >= 65 /\ c <= 90 THEN c + 32 ELSE c

\* str.lower()
lower(s) == [i \in 1..Len(s) |-> LowerChar(s[i])]

\* str.lower() forgotten: the text is compared as typed
lower_identity(s) == s

\* the test `p in s` of two str values (p non-empty in every use)
Contains(s, p) ==
    \E i \in 0..(Len(s) - Len(p)) : SubSeq(s, i + 1, i + Len(p)) = p

\* the characters the regular expression class \s and str.strip() treat as
\* whitespace, within ASCII: \t \n \v \f \r, the separators 28..31, space
IsSpace(c) == c \in {9, 10, 11, 12, 13, 28, 29, 30, 31, 32}

\* the literals of the program, as character codes
\* '[MATH] Math Solution:\n'
MATH_OK ==
    <<91, 77, 65, 84, 72, 93, 32, 77, 97, 116, 104, 32, 83, 111, 108, 117, 116, 105, 111, 110, 58, 10>>
\* '[ERROR] Math Error: Could not solve the problem. Error: '
MATH_ERR ==
    <<91, 69, 82, 82, 79, 82, 93, 32, 77, 97, 116, 104, 32, 69, 114, 114, 111, 114, 58, 32, 67, 111, 117, 108, 100, 32, 110, 111, 116, 32, 115, 111, 108, 118, 101, 32, 116, 104, 101, 32, 112, 114, 111, 98, 108, 101, 109, 46, 32, 69, 114, 114, 111, 114, 58, 32>>
\* '[SUMMARY] Summary:\n'
SUMMARY_OK ==
    <<91, 83, 85, 77, 77, 65, 82, 89, 93, 32, 83, 117, 109, 109, 97, 114, 121, 58, 10>>
\* '[ERROR] Summary Error: Could not summarize the text. Error: '
SUMMARY_ERR ==
    <<91, 69, 82, 82, 79, 82, 93, 32, 83, 117, 109, 109, 97, 114, 121, 32, 69, 114, 114, 111, 114, 58, 32, 67, 111, 117, 108, 100, 32, 110, 111, 116, 32, 115, 117, 109, 109, 97, 114, 105, 122, 101, 32, 116, 104, 101, 32, 116, 101, 120, 116, 46, 32, 69, 114, 114, 111, 114, 58, 32>>
\* '[GENERAL] General Response:\n'
GENERAL_OK ==
    <<91, 71, 69, 78, 69, 82, 65, 76, 93, 32, 71, 101, 110, 101, 114, 97, 108, 32, 82, 101, 115, 112, 111, 110, 115, 101, 58, 10>>
\* '[ERROR] Error: Could not process your request. Error: '
GENERAL_ERR ==
    <<91, 69, 82, 82, 79, 82, 93, 32, 69, 114, 114, 111, 114, 58, 32, 67, 111, 117, 108, 100, 32, 110, 111, 116, 32, 112, 114, 111, 99, 101, 115, 115, 32, 121, 111, 117, 114, 32, 114, 101, 113, 117, 101, 115, 116, 46, 32, 69, 114, 114, 111, 114, 58, 32>>
\* '[ERROR] Agent Error: '
AGENT_ERR ==
    <<91, 69, 82, 82, 79, 82, 93, 32, 65, 103, 101, 110, 116, 32, 69, 114, 114, 111, 114, 58, 32>>

\* router_node's math_patterns: '+', '-', '*', '/', 'calculate', 'solve', 'math', 'equation'
math_patterns ==
    {<<43>>,
     <<45>>,
     <<42>>,
     <<47>>,
     <<99, 97, 108, 99, 117, 108, 97, 116, 101>>,
     <<115, 111, 108, 118, 101>>,
     <<109, 97, 116, 104>>,
     <<101, 113, 117, 97, 116, 105, 111, 110>>}

\* router_node's summarization keywords: 'summarize', 'summary', 'sum up'
summary_keywords ==
    {<<115, 117, 109, 109, 97, 114, 105, 122, 101>>,
     <<115, 117, 109, 109, 97, 114, 121>>,
     <<115, 117, 109, 32, 117, 112>>}

\* a keyword list that also holds the bare word 'sum'
summary_keywords_loose ==
    {<<115, 117, 109, 109, 97, 114, 105, 122, 101>>,
     <<115, 117, 109, 109, 97, 114, 121>>,
     <<115, 117, 109, 32, 117, 112>>,
     <<115, 117, 109>>}

\* main's quit tokens: 'quit', 'exit', 'q'
quit_tokens ==
    {<<113, 117, 105, 116>>, <<101, 120, 105, 116>>, <<113>>}

\* main's test_cases
test_cases ==
    <<<<87, 104, 97, 116, 32, 105, 115, 32, 49, 53, 32, 43, 32, 50, 53, 32, 42, 32, 51, 63>>,
      <<83, 117, 109, 109, 97, 114, 105, 122, 101, 58, 32, 104, 111, 119, 32, 105, 115, 32, 101, 97, 114, 116, 104, 32, 102, 111, 114, 109, 101, 100, 63>>,
      <<72, 101, 108, 108, 111, 44, 32, 104, 111, 119, 32, 97, 114, 101, 32, 121, 111, 117, 32, 100, 111, 105, 110, 103, 32, 116, 111, 100, 97, 121, 63>>>>

\* the token of summarizer_node's regular expression: 'summarize'
re_token ==
    <<115, 117, 109, 109, 97, 114, 105, 122, 101>>

(***************************************************************************)
(* The text-generation backend (self.llm.invoke) and the inputs.           *)
(***************************************************************************)
\* the whitespace characters the generated texts use: space and newline
PadChars == {32, 10}

\* every run of at most MaxPad whitespace characters
Pads == UNION {[1..n -> PadChars] : n \in 0..MaxPad}

\* first words of the generated inputs: '', 'summarize', 'Summarize', 'sUMMARIZE', 'summariz', 'Sum Up'
Tokens ==
    {<<>>,
     <<115, 117, 109, 109, 97, 114, 105, 122, 101>>,
     <<83, 117, 109, 109, 97, 114, 105, 122, 101>>,
     <<115, 85, 77, 77, 65, 82, 73, 90, 69>>,
     <<115, 117, 109, 109, 97, 114, 105, 122>>,
     <<83, 117, 109, 32, 85, 112>>}

\* an optional colon after the first word
Colons == {<< >>, <<58>>}

\* remainders of the generated inputs: '', 'earth?', 'd text', '2+2', 'Math', ':my Summary'
Bodies ==
    {<<>>,
     <<101, 97, 114, 116, 104, 63>>,
     <<100, 32, 116, 101, 120, 116>>,
     <<50, 43, 50>>,
     <<77, 97, 116, 104>>,
     <<58, 109, 121, 32, 83, 117, 109, 109, 97, 114, 121>>}

\* the user inputs run() is called with: whitespace, a first word, an
\* optional colon, whitespace, a remainder
GeneratedInputs ==
    {l \o t \o c \o g \o b :
        l \in Pads, t \in Tokens, c \in Colons, g \in Pads, b \in Bodies}

\* the generated inputs and the three test cases of main
Inputs == GeneratedInputs \cup {test_cases[i] : i \in DOMAIN test_cases}

\* the strings llm.invoke returns: '' and '60'
Replies ==
    {<<>>,
     <<54, 48>>}

\* str(e) of the exceptions raised: '' and 'timeout'
Messages ==
    {<<>>,
     <<116, 105, 109, 101, 111, 117, 116>>}

\* what one call of self.llm.invoke does: it returns text, or raises an
\* exception e with str(e) = text
Outcomes ==
    {[raised |-> FALSE, text |-> r] : r \in Replies} \cup
    {[raised |-> TRUE, text |-> m] : m \in Messages}

\* the lines typed in interactive mode, before padding: '', 'quit', 'Q', 'EXIT',
\* and the texts of main's three test cases
LineBodies ==
    {<<>>,
     <<113, 117, 105, 116>>,
     <<81>>,
     <<69, 88, 73, 84>>} \cup
    {<<87, 104, 97, 116, 32, 105, 115, 32, 49, 53, 32, 43, 32, 50, 53, 32, 42, 32, 51, 63>>,
     <<83, 117, 109, 109, 97, 114, 105, 122, 101, 58, 32, 104, 111, 119, 32, 105, 115, 32, 101, 97, 114, 116, 104, 32, 102, 111, 114, 109, 101, 100, 63>>,
     <<72, 101, 108, 108, 111, 44, 32, 104, 111, 119, 32, 97, 114, 101, 32, 121, 111, 117, 32, 100, 111, 105, 110, 103, 32, 116, 111, 100, 97, 121, 63>>}

\* the lines input() returns in interactive mode: whitespace on the left, at
\* most one whitespace character on the right
Lines ==
    {l \o b \o t :
        l \in Pads, b \in LineBodies,
        t \in {<< >>} \cup {<<c>> : c \in PadChars}}

(***************************************************************************)
(* The nodes of the graph, as functions of the state dict (and of what the *)
(* backend call does, where the node makes one).                           *)
(***************************************************************************)
\* any(pattern in text for pattern in patterns)
AnyIn(patterns, text) == \E p \in patterns : Contains(text, p)

\* router_node with the two tests in the wrong order: summarization first
router_node_summary_first(st) ==
    LET user_input == lower(st.input) IN
    IF AnyIn(summary_keywords, user_input)
    THEN [st EXCEPT !.next = "summarizer", !.processing_type = "summarization"]
    ELSE IF AnyIn(math_patterns, user_input)
    THEN [st EXCEPT !.next = "math", !.processing_type = "mathematical"]
    ELSE [st EXCEPT !.next = "fallback", !.processing_type = "general"]

\* router_node without the .lower() of the input
router_node_case_sensitive(st) ==
    LET user_input == lower_identity(st.input) IN
    IF AnyIn(math_patterns, user_input)
    THEN [st EXCEPT !.next = "math", !.processing_type = "mathematical"]
    ELSE IF AnyIn(summary_keywords, user_input)
    THEN [st EXCEPT !.next = "summarizer", !.processing_type = "summarization"]
    ELSE [st EXCEPT !.next = "fallback", !.processing_type = "general"]

\* router_node with 'sum' among the summarization keywords
router_node_loose(st) ==
    LET user_input == lower(st.input) IN
    IF AnyIn(math_patterns, user_input)
    THEN [st EXCEPT !.next = "math", !.processing_type = "mathematical"]
    ELSE IF AnyIn(summary_keywords_loose, user_input)
    THEN [st EXCEPT !.next = "summarizer", !.processing_type = "summarization"]
    ELSE [st EXCEPT !.next = "fallback", !.processing_type = "general"]

\* router_node whose fallback branch writes 'general' as the route
router_node_general_route(st) ==
    LET user_input == lower(st.input) IN
    IF AnyIn(math_patterns, user_input)
    THEN [st EXCEPT !.next = "math", !.processing_type = "mathematical"]
    ELSE IF AnyIn(summary_keywords, user_input)
    THEN [st EXCEPT !.next = "summarizer", !.processing_type = "summarization"]
    ELSE [st EXCEPT !.next = "general", !.processing_type = "general"]

\* router_node that sends a state already classified to the fallback
router_node_once_only(st) ==
    LET user_input == lower(st.input) IN
    IF st.next # ""
    THEN [st EXCEPT !.next = "fallback", !.processing_type = "general"]
    ELSE IF AnyIn(math_patterns, user_input)
    THEN [st EXCEPT !.next = "math", !.processing_type = "mathematical"]
    ELSE IF AnyIn(summary_keywords, user_input)
    THEN [st EXCEPT !.next = "summarizer", !.processing_type = "summarization"]
    ELSE [st EXCEPT !.next = "fallback", !.processing_type = "general"]

\* router_node: math patterns first, then the summarization keywords, then
\* the fallback; returns the state with "next" and "processing_type" set
router_node(st) ==
    LET user_input == lower(st.input) IN
    IF AnyIn(math_patterns, user_input)
    THEN [st EXCEPT !.next = "math", !.processing_type = "mathematical"]
    ELSE IF AnyIn(summary_keywords, user_input)
    THEN [st EXCEPT !.next = "summarizer", !.processing_type = "summarization"]
    ELSE [st EXCEPT !.next = "fallback", !.processing_type = "general"]

\* decide_next_node: state.get("next", "fallback"); the key is always present
decide_next_node(st) == st.next

\* the mapping with the targets of "math" and "summarizer" exchanged
conditional_edges_swapped ==
    [k \in {"math", "summarizer", "fallback"} |->
        CASE k = "math" -> "summarizer"
          [] k = "summarizer" -> "math"
          [] k = "fallback" -> "final"]

\* the mapping of add_conditional_edges, and the plain edges to "final"
conditional_edges ==
    [k \in {"math", "summarizer", "fallback"} |->
        IF k = "fallback" THEN "final" ELSE k]

\* the f-string prompts: the template used and the text substituted into it
math_prompt(user_input) ==
    [template |-> "math_prompt", text |-> user_input]

summary_prompt(text_to_summarize) ==
    [template |-> "summary_prompt", text |-> text_to_summarize]

general_prompt(user_input) ==
    [template |-> "general_prompt", text |-> user_input]

\* math_node whose except branch also marks the request as an error
math_node_marks_error(st, r) ==
    IF r.raised
    THEN [st EXCEPT !.output = MATH_ERR \o r.text, !.next = "error",
                    !.processing_type = "error"]
    ELSE [st EXCEPT !.output = MATH_OK \o r.text]

\* math_node: the try/except around self.llm.invoke(math_prompt)
math_node(st, r) ==
    IF r.raised
    THEN [st EXCEPT !.output = MATH_ERR \o r.text]
    ELSE [st EXCEPT !.output = MATH_OK \o r.text]

\* index of the first character of s at or after position i that is not
\* whitespace (Len(s) + 1 when there is none): the greedy \s*
RECURSIVE SkipSpace(_, _)
SkipSpace(s, i) ==
    IF i <= Len(s) /\ IsSpace(s[i]) THEN SkipSpace(s, i + 1) ELSE i

\* the regular expression with a leading \s*: '^\s*summarize:?\s*'
strip_prefix_leading_space(s) ==
    LET a == SkipSpace(s, 1)
        n == Len(re_token)
    IN  IF Len(s) >= a + n - 1 /\ lower(SubSeq(s, a, a + n - 1)) = re_token
        THEN LET c == IF Len(s) >= a + n /\ s[a + n] = 58 THEN a + n + 1 ELSE a + n
             IN  SubSeq(s, SkipSpace(s, c), Len(s))
        ELSE s

\* the regular expression without re.IGNORECASE
strip_prefix_case_sensitive(s) ==
    LET n == Len(re_token)
    IN  IF Len(s) >= n /\ SubSeq(s, 1, n) = re_token
        THEN LET c == IF Len(s) > n /\ s[n + 1] = 58 THEN n + 2 ELSE n + 1
             IN  SubSeq(s, SkipSpace(s, c), Len(s))
        ELSE s

\* re.sub(r'^summarize:?\s*', '', s, flags=re.IGNORECASE): the pattern is
\* anchored at position 0 (no re.MULTILINE), so at most one match, at the
\* start: the token in any case, then a colon if one follows, then every
\* whitespace character that follows
strip_prefix(s) ==
    LET n == Len(re_token)
    IN  IF Len(s) >= n /\ lower(SubSeq(s, 1, n)) = re_token
        THEN LET c == IF Len(s) > n /\ s[n + 1] = 58 THEN n + 2 ELSE n + 1
             IN  SubSeq(s, SkipSpace(s, c), Len(s))
        ELSE s

\* summarizer_node's text_to_summarize
text_to_summarize(user_input) == strip_prefix(user_input)

\* summarizer_node that stores the stripped text back into the input
summarizer_node_rewrites_input(st, r) ==
    IF r.raised
    THEN [st EXCEPT !.output = SUMMARY_ERR \o r.text,
                    !.input = strip_prefix(st.input)]
    ELSE [st EXCEPT !.output = SUMMARY_OK \o r.text,
                    !.input = strip_prefix(st.input)]

\* summarizer_node that labels its reply as a math solution
summarizer_node_math_tag(st, r) ==
    IF r.raised
    THEN [st EXCEPT !.output = SUMMARY_ERR \o r.text]
    ELSE [st EXCEPT !.output = MATH_OK \o r.text]

\* summarizer_node: the try/except around self.llm.invoke(summary_prompt)
summarizer_node(st, r) ==
    IF r.raised
    THEN [st EXCEPT !.output = SUMMARY_ERR \o r.text]
    ELSE [st EXCEPT !.output = SUMMARY_OK \o r.text]

\* the test of final_node taken as always true
NoOutput_always(st) == TRUE

\* `not state.get("output")`: the output is missing or empty
NoOutput(st) == st.output = EmptyStr

\* final_node whose fallback output is the bare response
final_node_bare(st, r) ==
    IF NoOutput(st)
    THEN IF r.raised
         THEN [st EXCEPT !.output = GENERAL_ERR \o r.text]
         ELSE [st EXCEPT !.output = r.text]
    ELSE st

\* final_node that generates the general reply whatever the output holds
final_node_overwrites(st, r) ==
    IF r.raised
    THEN [st EXCEPT !.output = GENERAL_ERR \o r.text]
    ELSE [st EXCEPT !.output = GENERAL_OK \o r.text]

\* final_node that marks the route as finished before it returns
final_node_marks_end(st, r) ==
    IF NoOutput(st)
    THEN IF r.raised
         THEN [st EXCEPT !.output = GENERAL_ERR \o r.text, !.next = "end"]
         ELSE [st EXCEPT !.output = GENERAL_OK \o r.text, !.next = "end"]
    ELSE [st EXCEPT !.next = "end"]

\* final_node up to its print: when no output was generated, the try/except
\* around self.llm.invoke(general_prompt); otherwise the state as it is
final_node(st, r) ==
    IF NoOutput(st)
    THEN IF r.raised
         THEN [st EXCEPT !.output = GENERAL_ERR \o r.text]
         ELSE [st EXCEPT !.output = GENERAL_OK \o r.text]
    ELSE st

\* the state dict main and run hold before any request was made
NoRequest ==
    [input |-> EmptyStr, output |-> EmptyStr, next |-> "",
     processing_type |-> ""]

\* run's except branch, giving the error text without the failure message
run_except_no_message(user_input, e) ==
    [input |-> user_input, output |-> AGENT_ERR, next |-> "error",
     processing_type |-> "error"]

\* run's except branch: the dict returned for an exception with str(e) = e
run_except(user_input, e) ==
    [input |-> user_input, output |-> AGENT_ERR \o e, next |-> "error",
     processing_type |-> "error"]

\* str.strip(): leading and trailing whitespace removed
RECURSIVE RSkipSpace(_, _)
RSkipSpace(s, i) ==
    IF i >= 1 /\ IsSpace(s[i]) THEN RSkipSpace(s, i - 1) ELSE i

strip(s) == SubSeq(s, SkipSpace(s, 1), RSkipSpace(s, Len(s)))

(***************************************************************************)
(* The state of the process.                                               *)
(***************************************************************************)
VARIABLES
    pc,           \* where control is: "start" (main, before MistralAgent()),
                  \* "idle" (no request in flight), "router", "math",
                  \* "summarizer", "final" (inside graph.invoke, about to run
                  \* that node), "done" (run() has returned), "exited"
    agent,        \* "unbuilt", "built" or "failed": the MistralAgent object
    tc,           \* main: index of the next entry of test_cases; past the
                  \* last one, main is in interactive mode
    user_input,   \* the argument of the current call of run()
    state,        \* the state dict of the request
    result,       \* << >>, or <<d>> for the dict d that run() returned
    executed,     \* the nodes executed so far in this request, in order
    calls,        \* the calls of self.llm.invoke made in this request:
                  \* the prompt and what the call did
    escaped,      \* << >>, or <<str(e)>> for the exception that reached
                  \* run()'s except branch in this request
    printed,      \* << >>, or <<text>> for the output final_node printed
    memo,         \* << >>, or <<r>>: one earlier request of this process,
                  \* remembered with its input, backend behaviour and result
    last_failed   \* whether the request before the current one failed

vars ==
    <<pc, agent, tc, user_input, state, result, executed, calls, escaped,
      printed, memo, last_failed>>

\* the nodes added to the graph
Nodes == {"router", "math", "summarizer", "final"}

\* run's initial_state, built from what an earlier request left behind
initial_state_stale(inp) ==
    [input |-> inp, output |-> state.output, next |-> "",
     processing_type |-> ""]

\* run's initial_state
initial_state(inp) ==
    [input |-> inp, output |-> EmptyStr, next |-> "", processing_type |-> ""]

\* an entry point set to the final node
entry_point_final == "final"

\* workflow.set_entry_point("router")
entry_point == "router"

\* run(), up to the call of self.graph.invoke(initial_state): control is at
\* the entry point of the graph
RunBegin(inp) ==
    /\ user_input' = inp
    /\ state' = initial_state(inp)
    /\ pc' = entry_point
    /\ result' = << >>
    /\ executed' = << >>
    /\ calls' = << >>
    /\ escaped' = << >>
    /\ printed' = << >>

\* the entry point: router_node, then the conditional edge chosen by
\* decide_next_node (a key outside the mapping has no edge to follow)
RouterStep ==
    /\ pc = "router"
    /\ LET st == router_node(state) IN
        /\ decide_next_node(st) \in DOMAIN conditional_edges
        /\ state' = st
        /\ pc' = conditional_edges[decide_next_node(st)]
    /\ executed' = Append(executed, "router")
    /\ UNCHANGED <<agent, tc, user_input, result, calls, escaped, printed,
                   memo, last_failed>>

\* math_node with an edge back to itself instead of the edge to final
MathStep_self_edge ==
    /\ pc = "math"
    /\ \E r \in Outcomes :
        /\ state' = math_node(state, r)
        /\ calls' = Append(calls, [prompt |-> math_prompt(state.input),
                                   outcome |-> r])
    /\ pc' = "math"
    /\ executed' = Append(executed, "math")
    /\ UNCHANGED <<agent, tc, user_input, result, escaped, printed, memo,
                   last_failed>>

\* math_node with its backend call, then the edge math -> final
MathStep ==
    /\ pc = "math"
    /\ \E r \in Outcomes :
        /\ state' = math_node(state, r)
        /\ calls' = Append(calls, [prompt |-> math_prompt(state.input),
                                   outcome |-> r])
    /\ pc' = "final"
    /\ executed' = Append(executed, "math")
    /\ UNCHANGED <<agent, tc, user_input, result, escaped, printed, memo,
                   last_failed>>

\* summarizer_node with its backend call, then the edge summarizer -> final
SummarizerStep ==
    /\ pc = "summarizer"
    /\ \E r \in Outcomes :
        /\ state' = summarizer_node(state, r)
        /\ calls' = Append(calls,
                [prompt |-> summary_prompt(text_to_summarize(state.input)),
                 outcome |-> r])
    /\ pc' = "final"
    /\ executed' = Append(executed, "summarizer")
    /\ UNCHANGED <<agent, tc, user_input, result, escaped, printed, memo,
                   last_failed>>

\* final_node: the fallback call when there is no output, the print of
\* state["output"], then the edge final -> END, and run() returns the state
FinalStep ==
    /\ pc = "final"
    /\ IF NoOutput(state)
       THEN \E r \in Outcomes :
               /\ state' = final_node(state, r)
               /\ calls' = Append(calls,
                       [prompt |-> general_prompt(state.input),
                        outcome |-> r])
       ELSE /\ state' = final_node(state, [raised |-> FALSE, text |-> EmptyStr])
            /\ calls' = calls
    /\ printed' = <<state'.output>>
    /\ result' = <<state'>>
    /\ pc' = "done"
    /\ executed' = Append(executed, "final")
    /\ UNCHANGED <<agent, tc, user_input, escaped, memo, last_failed>>

\* an exception that no node recovers (raised by the graph engine, or by a
\* print of final_node) leaves self.graph.invoke: run's except branch
\* returns the error dict
GraphRaises ==
    /\ pc \in Nodes
    /\ \E e \in Messages :
        /\ escaped' = <<e>>
        /\ result' = <<run_except(user_input, e)>>
    /\ pc' = "done"
    /\ UNCHANGED <<agent, tc, user_input, state, executed, calls, printed,
                   memo, last_failed>>

\* a caller of agent.run(user_input), as test_full_execution makes it
Call ==
    /\ pc = "idle"
    /\ RunBegin(user_input)
    /\ UNCHANGED <<agent, tc, memo, last_failed>>

(***************************************************************************)
(* main().                                                                 *)
(***************************************************************************)
\* main's try/except around MistralAgent() without the return
ConstructAgent_no_return ==
    /\ pc = "start"
    /\ \E ok \in BOOLEAN :
        agent' = IF ok THEN "built" ELSE "failed"
    /\ pc' = "idle"
    /\ UNCHANGED <<tc, user_input, state, result, executed, calls, escaped,
                   printed, memo, last_failed>>

\* agent = MistralAgent(): Ollama(...) succeeds and the graph is built, or
\* it raises, __init__ re-raises, and main prints the failure and returns
ConstructAgent ==
    /\ pc = "start"
    /\ \E ok \in BOOLEAN :
        IF ok
        THEN agent' = "built" /\ pc' = "idle"
        ELSE agent' = "failed" /\ pc' = "exited"
    /\ UNCHANGED <<tc, user_input, state, result, executed, calls, escaped,
                   printed, memo, last_failed>>

\* the request that has just completed
Completed ==
    [input |-> user_input, calls |-> calls, escaped |-> escaped,
     result |-> result]

\* whether the request that has just completed met a failure
Failed ==
    escaped # << >> \/ \E i \in DOMAIN calls : calls[i].outcome.raised

\* main goes on to its next request: the bookkeeping about earlier requests
NextRequest ==
    /\ pc \in {"idle", "done"}
    /\ memo' \in (IF pc = "done" THEN {memo, <<Completed>>} ELSE {memo})
    /\ last_failed' = (pc = "done" /\ Failed)

\* the loop over test_cases: result = agent.run(test_input)
MainTestCase ==
    /\ tc <= Len(test_cases)
    /\ NextRequest
    /\ RunBegin(test_cases[tc])
    /\ tc' = tc + 1
    /\ UNCHANGED agent

\* one turn of the interactive loop: a quit token ends it, an empty line is
\* refused, anything else goes to agent.run
MainInteractive ==
    /\ tc > Len(test_cases)
    /\ pc \in {"idle", "done"}
    /\ \E line \in Lines :
        LET text == strip(line) IN
        IF lower(text) \in quit_tokens
        THEN /\ pc' = "exited"
             /\ UNCHANGED <<agent, tc, user_input, state, result, executed,
                            calls, escaped, printed, memo, last_failed>>
        ELSE IF text = EmptyStr
        THEN UNCHANGED vars
        ELSE /\ NextRequest
             /\ RunBegin(text)
             /\ UNCHANGED <<agent, tc>>

(***************************************************************************)
(* Specifications.                                                         *)
(***************************************************************************)
\* one call of run() on any of the inputs, by an agent already constructed
Init ==
    /\ pc = "idle"
    /\ agent = "built"
    /\ tc = 1
    /\ user_input \in Inputs
    /\ state = NoRequest
    /\ result = << >>
    /\ executed = << >>
    /\ calls = << >>
    /\ escaped = << >>
    /\ printed = << >>
    /\ memo = << >>
    /\ last_failed = FALSE

Next ==
    \/ Call
    \/ RouterStep
    \/ MathStep
    \/ SummarizerStep
    \/ FinalStep
    \/ GraphRaises

Spec == Init /\ [][Next]_vars

\* the same, with the scheduling of a single-threaded synchronous program:
\* a step that can be taken is taken (every backend call returns or raises);
\* the inputs are the test cases of main and the generated inputs that have
\* no padding
LiveInputs ==
    {t \o c \o b : t \in Tokens, c \in Colons, b \in Bodies} \cup
    {test_cases[i] : i \in DOMAIN test_cases}

LiveInit == Init /\ user_input \in LiveInputs

LiveSpec == LiveInit /\ [][Next]_vars /\ WF_vars(Next)

\* the process running main()
MainInit ==
    /\ pc = "start"
    /\ agent = "unbuilt"
    /\ tc = 1
    /\ user_input = EmptyStr
    /\ state = NoRequest
    /\ result = << >>
    /\ executed = << >>
    /\ calls = << >>
    /\ escaped = << >>
    /\ printed = << >>
    /\ memo = << >>
    /\ last_failed = FALSE

MainNext ==
    \/ ConstructAgent
    \/ MainTestCase
    \/ MainInteractive
    \/ RouterStep
    \/ MathStep
    \/ SummarizerStep
    \/ FinalStep
    \/ GraphRaises

MainSpec == MainInit /\ [][MainNext]_vars

(***************************************************************************)
(* Properties.                                                             *)
(***************************************************************************)
\* the router has run in the current request
RouterRan == executed # << >> /\ executed[1] = "router"

\* the input, lower-cased, contains one of the math markers
HasMathMarker(s) == \E m \in math_patterns : Contains(lower(s), m)

\* the input contains 'summarize', 'summary' or 'sum up' in any letter case
HasSummaryKeyword(s) == \E k \in summary_keywords : Contains(lower(s), k)

C2_SummaryKeywordRoutesToSummarizer ==
    (RouterRan /\ HasSummaryKeyword(state.input)
        /\ ~HasMathMarker(state.input)) =>
        (state.next = "summarizer" /\ state.processing_type = "summarization")

\* an input whose keyword is not in lower case has been routed to the
\* summarizer
C2_Witness ==
    /\ RouterRan
    /\ HasSummaryKeyword(state.input)
    /\ ~(\E k \in summary_keywords : Contains(state.input, k))
    /\ state.next = "summarizer"

\* C3: every input with no math marker and no summarize keyword, the empty
\* input included, is routed to 'fallback' with processing type 'general';
\* the router's outcome is exactly one of the three routes, each with its
\* processing type, and 'fallback' is chosen for no other input
C3_OtherInputsRouteToFallback ==
    RouterRan =>
        /\ (~HasMathMarker(state.input) /\ ~HasSummaryKeyword(state.input))
                <=> state.next = "fallback"
        /\ <<state.next, state.processing_type>> \in
                {<<"math", "mathematical">>, <<"summarizer", "summarization">>,
                 <<"fallback", "general">>}
        /\ state.next = "math" <=> HasMathMarker(state.input)

\* the empty input has been routed to the fallback
C3_Witness ==
    /\ RouterRan
    /\ state.input = EmptyStr
    /\ state.next = "fallback"
    /\ state.processing_type = "general"

\* C4: the output that final_node prints is never empty, and the dict that
\* run() returns has a non-empty output, whatever the backend returned or
\* raised
C4_OutputNeverEmpty ==
    /\ printed # << >> => printed[1] # EmptyStr
    /\ result # << >> => result[1].output # EmptyStr

\* a request whose backend call returned the empty string was printed and
\* returned
C4_Witness ==
    /\ pc = "done"
    /\ printed # << >>
    /\ result # << >>
    /\ \E i \in DOMAIN calls :
            ~calls[i].outcome.raised /\ calls[i].outcome.text = EmptyStr

\* '[ERROR]'
ERROR_TAG ==
    <<91, 69, 82, 82, 79, 82, 93>>

\* s starts with p
StartsWith(s, p) == Len(s) >= Len(p) /\ SubSeq(s, 1, Len(p)) = p

\* the route of the Responder that builds each prompt
RouteOfTemplate(t) ==
    CASE t = "math_prompt" -> "math"
      [] t = "summary_prompt" -> "summarizer"
      [] t = "general_prompt" -> "fallback"

\* C5, in every state: once a backend call has raised, the output starts
\* with '[ERROR]' and contains the exception's message, the route is still
\* the Responder's own route with its processing type (not 'error'), and a
\* request that then ends without another failure returns that state
C5_StateAfterBackendError ==
    \A i \in DOMAIN calls :
        calls[i].outcome.raised =>
            /\ StartsWith(state.output, ERROR_TAG)
            /\ Contains(state.output, calls[i].outcome.text)
            /\ state.next = RouteOfTemplate(calls[i].prompt.template)
            /\ <<state.next, state.processing_type>> \in
                    {<<"math", "mathematical">>,
                     <<"summarizer", "summarization">>,
                     <<"fallback", "general">>}
            /\ (pc = "done" /\ escaped = << >>) => result = <<state>>

\* C5, in every step: the step in which the backend call raises does not
\* reach run()'s except branch, leaves route and processing type as they
\* were, and moves on to the final node or, from the final node, to the end
C5_StepOfBackendError ==
    (Len(calls') > Len(calls) /\ calls'[Len(calls')].outcome.raised) =>
        /\ escaped' = << >>
        /\ state'.next = state.next
        /\ state'.processing_type = state.processing_type
        /\ pc' = (IF pc = "final" THEN "done" ELSE "final")

\* C5: an exception of the backend call inside a Responder is not
\* propagated: the output is an '[ERROR]' text with the message, the
\* pipeline goes on to the final node and to the end, and the route and
\* processing type stay the ones the router chose
C5_BackendErrorRecovered ==
    [](C5_StateAfterBackendError) /\ [][C5_StepOfBackendError]_vars

\* a request routed to math whose backend call raised has ended, and run()
\* returned the route 'math'
C5_Witness ==
    /\ pc = "done"
    /\ escaped = << >>
    /\ \E i \in DOMAIN calls :
            calls[i].outcome.raised /\ calls[i].outcome.text # EmptyStr
    /\ result # << >>
    /\ result[1].next = "math"

\* C6: an exception that escapes the graph is caught in run(), which
\* returns a dict with the original input, 'error' as next and as
\* processing_type, and '[ERROR] Agent Error: ' followed by the message
C6_EscapedExceptionGivesErrorState ==
    escaped # << >> =>
        /\ pc = "done"
        /\ result =
            <<[input |-> user_input,
               output |-> AGENT_ERR \o escaped[1],
               next |-> "error",
               processing_type |-> "error"]>>

\* an exception with a message escaped after a Responder had run
C6_Witness ==
    /\ escaped # << >>
    /\ escaped[1] # EmptyStr
    /\ calls # << >>
    /\ result # << >>
    /\ result[1].next = "error"

\* C7: a request's returned dict depends only on its own input and on what
\* the backend (and the graph engine) did during it: a request that has the
\* input and the behaviour of an earlier request of the same process
\* returns what that one returned, whatever was handled in between, a
\* failed request included
C7_ResultDependsOnOwnRequestOnly ==
    (/\ pc = "done"
     /\ memo # << >>
     /\ memo[1].input = user_input
     /\ memo[1].calls = calls
     /\ memo[1].escaped = escaped) =>
        result = memo[1].result

\* a request that follows a failed request has completed without failure,
\* with the input and backend behaviour of an earlier request
C7_Witness ==
    /\ pc = "done"
    /\ last_failed
    /\ ~Failed
    /\ memo # << >>
    /\ memo[1].input = user_input
    /\ memo[1].calls = calls
    /\ memo[1].escaped = escaped
    /\ result = memo[1].result
    /\ result[1].next = "fallback"

\* the summarize token stands at position a of s, in any letter case
TokenAt(s, a) ==
    /\ Len(s) >= a + Len(re_token) - 1
    /\ \A j \in 1..Len(re_token) : LowerChar(s[a + j - 1]) = re_token[j]

\* t is s (whose token starts at position a) without everything up to the
\* end of the token, without the colon that directly follows the token if
\* there is one, and without all the whitespace after that
IsBodyAfterToken(s, a, t) ==
    LET e == a + Len(re_token) - 1 IN
    \E k \in e..Len(s) :
        /\ t = SubSeq(s, k + 1, Len(s))
        /\ \A j \in (e + 1)..k : IsSpace(s[j]) \/ (j = e + 1 /\ s[j] = 58)
        /\ (Len(s) > e /\ s[e + 1] = 58) => k > e
        /\ k < Len(s) => ~IsSpace(s[k + 1])

\* the calls of this request made by summarizer_node
SummaryCalls ==
    {i \in DOMAIN calls : calls[i].prompt.template = "summary_prompt"}

\* C8: the text in the summarization prompt is, for an input that begins
\* with 'summarize' in any letter case, the input without that token, the
\* colon that may follow it and all whitespace after it, the rest
\* unchanged; an input that does not begin with the token is passed
\* unchanged
C8_PrefixStripped ==
    \A i \in SummaryCalls :
        IF TokenAt(state.input, 1)
        THEN IsBodyAfterToken(state.input, 1, calls[i].prompt.text)
        ELSE calls[i].prompt.text = state.input

\* 'Summarize: how is earth formed?' was summarized as 'how is earth formed?'
C8_Witness ==
    /\ state.input = test_cases[2]
    /\ \E i \in SummaryCalls :
            calls[i].prompt.text =
                <<104, 111, 119, 32, 105, 115, 32, 101, 97, 114, 116, 104, 32,
                  102, 111, 114, 109, 101, 100, 63>>

\* position of the first character of s that is not whitespace
FirstNonSpace(s) ==
    IF \E j \in 1..Len(s) : ~IsSpace(s[j])
    THEN CHOOSE j \in 1..Len(s) :
            ~IsSpace(s[j]) /\ \A h \in 1..(j - 1) : IsSpace(s[h])
    ELSE Len(s) + 1

\* the input is whitespace, then the token
TokenAfterLeadingSpace(s) ==
    FirstNonSpace(s) > 1 /\ TokenAt(s, FirstNonSpace(s))

\* C9 as claimed: for an input made of whitespace, the token (optional
\* colon) and a body, the text to summarize is the body alone
C9_LeadingWhitespaceRemoved ==
    \A i \in SummaryCalls :
        TokenAfterLeadingSpace(state.input) =>
            IsBodyAfterToken(state.input, FirstNonSpace(state.input),
                             calls[i].prompt.text)

\* C9 as amended: the pattern is anchored at the first character, so an
\* input with whitespace before the token is passed to the prompt
\* unchanged, leading whitespace and token included
C9_LeadingWhitespaceKeepsInput ==
    \A i \in SummaryCalls :
        TokenAfterLeadingSpace(state.input) =>
            calls[i].prompt.text = state.input

\* an input with whitespace before the token, a colon and a body was
\* summarized
C9_Witness ==
    /\ TokenAfterLeadingSpace(state.input)
    /\ Contains(state.input, <<58, 32, 101, 97, 114, 116, 104, 63>>)
    /\ \E i \in SummaryCalls : calls[i].prompt.text = state.input

\* C10: when the backend cannot be constructed, main has returned and no
\* request was started: no node ran, no backend call was made, nothing was
\* printed or returned
C10_InitFailureServesNothing ==
    agent = "failed" =>
        /\ pc = "exited"
        /\ executed = << >>
        /\ calls = << >>
        /\ printed = << >>
        /\ result = << >>
        /\ state = NoRequest

\* the construction failed and main returned
C10_Witness == agent = "failed" /\ pc = "exited"

\* the success tag of each route: '[MATH]', '[SUMMARY]', '[GENERAL]'
SuccessTag(route) ==
    CASE route = "math" -> <<91, 77, 65, 84, 72, 93>>
      [] route = "summarizer" -> <<91, 83, 85, 77, 77, 65, 82, 89, 93>>
      [] route = "fallback" -> <<91, 71, 69, 78, 69, 82, 65, 76, 93>>

\* the three routes the router chooses between
Routes == {"math", "summarizer", "fallback"}

\* s ends with p
EndsWith(s, p) ==
    Len(s) >= Len(p) /\ SubSeq(s, Len(s) - Len(p) + 1, Len(s)) = p

\* C11: when the backend call succeeds, the output starts with the tag of
\* the route the router chose ('[MATH]' for math, '[SUMMARY]' for
\* summarizer, '[GENERAL]' for fallback) and with no other route's tag, and
\* ends with the backend's reply; a request that ends without a top-level
\* failure returns that output
C11_SuccessTagMatchesRoute ==
    \A i \in DOMAIN calls :
        ~calls[i].outcome.raised =>
            /\ state.next \in Routes
            /\ StartsWith(state.output, SuccessTag(state.next))
            /\ \A other \in Routes \ {state.next} :
                    ~StartsWith(state.output, SuccessTag(other))
            /\ EndsWith(state.output, calls[i].outcome.text)
            /\ Len(state.output) >
                    Len(SuccessTag(state.next)) + Len(calls[i].outcome.text)
            /\ (pc = "done" /\ escaped = << >>) =>
                    result[1].output = state.output

\* a request routed to the summarizer, whose backend call returned a
\* non-empty reply, has ended
C11_Witness ==
    /\ pc = "done"
    /\ escaped = << >>
    /\ state.next = "summarizer"
    /\ \E i \in DOMAIN calls :
            ~calls[i].outcome.raised /\ calls[i].outcome.text # EmptyStr
    /\ StartsWith(result[1].output, SuccessTag("summarizer"))

\* the positions at which a Responder starts: math_node, summarizer_node,
\* and final_node with its fallback
ResponderPositions == {"math", "summarizer", "final"}

\* C12, in every state: the first node executed in a request is the
\* router; wherever a Responder is about to start, and after any backend
\* call, the router has run and the category is one of its three values
C12_StateCategorySet ==
    /\ executed # << >> => executed[1] = "router"
    /\ pc = "router" => executed = << >>
    /\ pc \in ResponderPositions =>
            (RouterRan /\ state.next \in Routes
                /\ state.processing_type # "")
    /\ calls # << >> => (RouterRan /\ state.next \in Routes)

\* C12, in every step: a step that executes a Responder node or makes a
\* backend call starts from a state whose category is already set
C12_StepCategorySet ==
    (Len(executed') > Len(executed)
        /\ executed'[Len(executed')] \in ResponderPositions) =>
        (state.next \in Routes /\ executed # << >> /\ executed[1] = "router")

\* C12: the router runs first in every request, and no Responder ever
\* starts with the category still unset
C12_RouterFirstCategorySet ==
    [](C12_StateCategorySet) /\ [][C12_StepCategorySet]_vars

\* the fallback Responder of final_node is about to start, right after the
\* router, with the category set
C12_Witness ==
    /\ pc = "final"
    /\ executed = <<"router">>
    /\ state.next = "fallback"
    /\ state.output = EmptyStr

\* the nodes executed so far in this request, as a set
ExecutedNodes == {executed[i] : i \in DOMAIN executed}

\* C13: of math_node and summarizer_node, never both run in one request,
\* and one that runs is the one matching the category; when the final node
\* is entered, exactly the matching one has run after the router for the
\* categories math and summarize, and for the category general neither has
\* run and the output is still empty
C13_MatchingResponderOnly ==
    /\ ~({"math", "summarizer"} \subseteq ExecutedNodes)
    /\ "math" \in ExecutedNodes => state.next = "math"
    /\ "summarizer" \in ExecutedNodes => state.next = "summarizer"
    /\ pc = "final" =>
        /\ state.next = "math" => executed = <<"router", "math">>
        /\ state.next = "summarizer" => executed = <<"router", "summarizer">>
        /\ state.next = "fallback" =>
                (executed = <<"router">> /\ state.output = EmptyStr
                    /\ calls = << >>)

\* the final node is entered after the summarizer, and only the
\* summarizer, has run for a request of category summarize
C13_Witness ==
    /\ pc = "final"
    /\ state.next = "summarizer"
    /\ executed = <<"router", "summarizer">>
    /\ state.output # EmptyStr

\* C14 as claimed: the output is empty until a Responder or the fallback
\* has run; it is written exactly once, by one of them, and the request
\* ends with the output that was written
C14_OutputWrittenExactlyOnce ==
    /\ state.output = EmptyStr <=> calls = << >>
    /\ pc = "done" =>
        /\ Len(calls) = 1
        /\ state.output # EmptyStr
        /\ result[1].output = state.output

\* C14 as amended, in every state: the output of the state dict is empty
\* until a Responder or the fallback has run and is written at most once;
\* a request whose graph execution completes has written it exactly once
\* and returns it; a request ended by an exception that escaped the graph
\* returns a separate dict with the '[ERROR] Agent Error: ' text
C14_StateOutputWrittenOnce ==
    /\ state.output = EmptyStr <=> calls = << >>
    /\ Len(calls) <= 1
    /\ (pc = "done" /\ escaped = << >>) =>
        /\ Len(calls) = 1
        /\ result[1].output = state.output
    /\ (pc = "done" /\ escaped # << >>) =>
        result[1].output = AGENT_ERR \o escaped[1]

\* C14 as amended, in every step: no step of the request changes an output
\* of the state dict that has been written
C14_StepKeepsOutput ==
    (pc \in Nodes /\ state.output # EmptyStr) => state'.output = state.output

\* C14 as amended
C14_OutputWrittenOnceUnlessEscaped ==
    [](C14_StateOutputWrittenOnce) /\ [][C14_StepKeepsOutput]_vars

\* the final node ran on an output written by math_node, and the request
\* ended with that output
C14_Witness ==
    /\ pc = "done"
    /\ escaped = << >>
    /\ executed = <<"router", "math", "final">>
    /\ Len(calls) = 1
    /\ result[1].output = state.output
    /\ StartsWith(state.output, MATH_OK)

\* how far a request has come: the entry point, a Responder, the final
\* node, the end
Rank(p) ==
    CASE p = "router" -> 0
      [] p \in {"math", "summarizer"} -> 1
      [] p = "final" -> 2
      [] OTHER -> 3

\* no node occurs twice among the nodes executed in this request
EachNodeAtMostOnce ==
    \A i, j \in DOMAIN executed : executed[i] = executed[j] => i = j

\* C15 as claimed, for a request that has ended: every node ran at most
\* once, and the terminal state was reached after the final node
C15_EndsAfterFinalNode ==
    /\ EachNodeAtMostOnce
    /\ pc = "done" =>
        (executed # << >> /\ executed[Len(executed)] = "final")

\* C15 as amended, in every state: every node ran at most once, in the
\* order router, one Responder at most, final; a request that ends without
\* an escaped exception ends after the final node, and one that ends with
\* an escaped exception has the error dict as its result
C15_StateSinglePass ==
    /\ EachNodeAtMostOnce
    /\ executed \in {<< >>, <<"router">>, <<"router", "math">>,
                     <<"router", "summarizer">>, <<"router", "final">>,
                     <<"router", "math", "final">>,
                     <<"router", "summarizer", "final">>}
    /\ (pc = "done" /\ escaped = << >>) =>
        (executed # << >> /\ executed[Len(executed)] = "final")
    /\ (pc = "done" /\ escaped # << >>) => result[1].next = "error"

\* C15 as amended, in every step: every step of a request moves it forward,
\* so that no node is entered again
C15_StepForward ==
    pc \in Nodes => Rank(pc') > Rank(pc)

\* C15 as amended: a single pass, and every request that has started
\* reaches the end: after the final node, or through run's except branch
\* when an exception escapes the graph
C15_SinglePassTerminates ==
    /\ [](C15_StateSinglePass)
    /\ [][C15_StepForward]_vars
    /\ (pc = "router") ~> (pc = "done")

\* a request has ended after router, summarizer and final, each run once
C15_Witness ==
    /\ pc = "done"
    /\ escaped = << >>
    /\ executed = <<"router", "summarizer", "final">>

\* the category pairs the router writes
RouterPairs ==
    {<<"math", "mathematical">>, <<"summarizer", "summarization">>,
     <<"fallback", "general">>}

\* C16 as claimed: the input is never changed, the category fields are
\* written once, by the router, and the dict that run() returns carries the
\* input and the category the router assigned
C16_ReturnedCategoryIsRouters ==
    /\ pc \in Nodes \cup {"done"} => state.input = user_input
    /\ (pc \in Nodes \cup {"done"} /\ ~RouterRan) =>
            <<state.next, state.processing_type>> = <<"", "">>
    /\ RouterRan => <<state.next, state.processing_type>> \in RouterPairs
    /\ pc = "done" =>
        /\ result[1].input = user_input
        /\ <<result[1].next, result[1].processing_type>> \in RouterPairs
        /\ result[1].next = state.next
        /\ result[1].processing_type = state.processing_type

\* C16 as amended, in every state: the input of the state dict is the
\* argument of run(); its category fields are empty until the router has
\* run and hold the router's pair from then on; run() returns that input
\* and that category when the graph execution completes, and the input
\* with the category 'error' when an exception escaped the graph
C16_StateCategoryFields ==
    /\ pc \in Nodes \cup {"done"} => state.input = user_input
    /\ (pc \in Nodes \cup {"done"} /\ ~RouterRan) =>
            <<state.next, state.processing_type>> = <<"", "">>
    /\ RouterRan => <<state.next, state.processing_type>> \in RouterPairs
    /\ (pc = "done" /\ escaped = << >>) =>
        /\ result[1].input = user_input
        /\ result[1].next = state.next
        /\ result[1].processing_type = state.processing_type
    /\ (pc = "done" /\ escaped # << >>) =>
        /\ result[1].input = user_input
        /\ <<result[1].next, result[1].processing_type>> = <<"error", "error">>

\* C16 as amended, in every step: no step of a request changes the input,
\* and no step but the router's changes next or processing_type
C16_StepKeepsFields ==
    pc \in Nodes =>
        /\ state'.input = state.input
        /\ pc # "router" =>
            /\ state'.next = state.next
            /\ state'.processing_type = state.processing_type

\* C16 as amended
C16_CategoryWrittenByRouterOnly ==
    [](C16_StateCategoryFields) /\ [][C16_StepKeepsFields]_vars

\* a request whose input starts with the summarize token ended after the
\* summarizer and the final node, with its input and category as they were
C16_Witness ==
    /\ pc = "done"
    /\ escaped = << >>
    /\ executed = <<"router", "summarizer", "final">>
    /\ strip_prefix(user_input) # user_input
    /\ result[1].input = user_input
    /\ result[1].next = "summarizer"

\* C17, in every step of the final node: the state it returns is the
\* populated state it rendered, field for field: the state it was given,
\* with the output it printed (the output it was given, unless that was
\* empty and the fallback filled it)
C17_StepPresenterKeepsState ==
    (pc = "final" /\ pc' = "done" /\ escaped' = << >>) =>
        /\ printed' # << >>
        /\ state' = [state EXCEPT !.output = printed'[1]]
        /\ state.output # EmptyStr => state' = state
        /\ result' = <<state'>>

\* C17, in every state: what final_node printed is the output of the state
\* it returned, and run() returns that state
C17_StateRenderedIsReturned ==
    (pc = "done" /\ escaped = << >>) =>
        (printed = <<state.output>> /\ result = <<state>>)

\* C17: the Presenter does not mutate the Request Context
C17_PresenterDoesNotMutate ==
    [](C17_StateRenderedIsReturned) /\ [][C17_StepPresenterKeepsState]_vars

\* final_node rendered a state populated by math_node and returned it
C17_Witness ==
    /\ pc = "done"
    /\ escaped = << >>
    /\ executed = <<"router", "math", "final">>
    /\ printed = <<state.output>>
    /\ result = <<state>>
    /\ state.next = "math"

\* C18: classification is idempotent: once the router has run, applying
\* router_node again to the state it returned (also after a Responder has
\* written the output) changes nothing, and classifying the same input
\* afresh gives the route and processing type the request has
C18_RouterIdempotent ==
    RouterRan =>
        /\ router_node(state) = state
        /\ router_node(router_node(state)) = router_node(state)
        /\ LET again == router_node(initial_state(state.input)) IN
            /\ again.next = state.next
            /\ again.processing_type = state.processing_type

\* a request routed to math has been classified and answered
C18_Witness ==
    /\ RouterRan
    /\ state.next = "math"
    /\ state.output # EmptyStr
    /\ router_node(state) = state

\* the calls of this request made by the fallback of final_node
FallbackCalls ==
    {i \in DOMAIN calls : calls[i].prompt.template = "general_prompt"}

\* C19: a request never makes more than one backend call, and one whose
\* graph execution completes makes exactly one, also when the call raised
\* or returned the empty string; the fallback call of final_node is made
\* exactly for the route 'fallback', and never in a request in which
\* math_node or summarizer_node has run
C19_ExactlyOneBackendCall ==
    /\ Len(calls) <= 1
    /\ (pc = "done" /\ escaped = << >>) =>
        /\ Len(calls) = 1
        /\ FallbackCalls # {} <=> state.next = "fallback"
    /\ FallbackCalls # {} =>
        /\ state.next = "fallback"
        /\ ExecutedNodes \cap {"math", "summarizer"} = {}
        /\ "final" \in ExecutedNodes

\* a request routed to math whose backend call returned the empty string
\* has completed with that single call
C19_Witness ==
    /\ pc = "done"
    /\ escaped = << >>
    /\ executed = <<"router", "math", "final">>
    /\ Len(calls) = 1
    /\ ~calls[1].outcome.raised
    /\ calls[1].outcome.text = EmptyStr

\* C20: after the router has run the pair (next, processing_type) is
\* (math, mathematical), (summarizer, summarization) or (fallback, general);
\* the dict run() returns holds one of these pairs or, exactly when an
\* exception escaped the graph, (error, error); and the value
\* decide_next_node returns for the router's state is one of the three keys
\* of the conditional-edge map
C20_CategoryPairsAndDispatch ==
    /\ RouterRan => <<state.next, state.processing_type>> \in RouterPairs
    /\ result # << >> =>
        /\ <<result[1].next, result[1].processing_type>> \in
                RouterPairs \cup {<<"error", "error">>}
        /\ <<result[1].next, result[1].processing_type>> = <<"error", "error">>
                <=> escaped # << >>
    /\ DOMAIN conditional_edges = {"math", "summarizer", "fallback"}
    /\ pc = "router" =>
            decide_next_node(router_node(state)) \in DOMAIN conditional_edges
    /\ RouterRan => decide_next_node(state) \in DOMAIN conditional_edges

\* run() returned (error, error) for a request the router had classified
C20_Witness ==
    /\ pc = "done"
    /\ escaped # << >>
    /\ RouterRan
    /\ <<state.next, state.processing_type>> = <<"fallback", "general">>
    /\ <<result[1].next, result[1].processing_type>> = <<"error", "error">>

====
